---- MODULE Spec2Model ----
(***************************************************************************)
(* Model of Jenkins/deploy.py: a single-pass deployment script that loads  *)
(* a variable -> SSM path mapping, finds or creates a target group,        *)
(* registers an ECS task definition with the resolved secrets and creates  *)
(* or updates the ECS service.                                             *)
(*                                                                         *)
(* Every remote (boto3) call is one step.  The step appends the request    *)
(* and the response to the log `calls`.  An exception nobody catches ends  *)
(* the Python process with a traceback and exit status 1; sys.exit(1)      *)
(* ends it with exit status 1 after the printed diagnostic.                *)
(*                                                                         *)
(* Names that the program takes apart (project, service and container      *)
(* names) are sequences of one-character strings; opaque identifiers are   *)
(* tuples of their parts.                                                  *)
(***************************************************************************)
EXTENDS Integers, Sequences, FiniteSets, TLC

VARIABLES
    mode,            \* entry point: the script's main block, or the target-group resolver called in a row
    project,         \* --project
    region,          \* boto3.session.Session().region_name
    cfg,             \* the file named by --env-yml
    store,           \* remote: paths present in the parameter store
    targetGroups,    \* remote: target groups of the load balancer, <<name, id>>
    pc,              \* position of the process
    env_map,         \* value bound by yaml.safe_load(f)['variables']
    tg_arn,          \* result of get_or_create_target_group (<<>> before)
    results,         \* values returned by the successive resolver calls
    secrets_config,  \* list built by register_task_definition
    idx,             \* position of the loop over env_vars_map.items()
    td_arn,          \* result of register_task_definition (<<>> before)
    service_exists,  \* local of deploy_service
    calls,           \* log of the remote calls issued so far
    exitStatus,      \* exit status of the process (-1 while it runs)
    diag             \* what the process printed when it stopped

vars == <<mode, project, region, cfg, store, targetGroups, pc, env_map, tg_arn,
          results, secrets_config, idx, td_arn, service_exists, calls,
          exitStatus, diag>>

inputs == <<mode, project, region, cfg, store>>

----------------------------------------------------------------------------
(* Bounds and input domains *)

MaxVars == 2

\* how many times in a row the resolver is called when it is exercised alone
ResolverCalls == 2

ContainerPort == 8000

Paths == {"/prod/db_pass", "/prod/api_key"}

Regions == {"us-east-1", "eu-west-1"}

Account == "123456789012"

TgIds == {"tg/1a", "tg/2b"}

Revisions == {1, 2}

ServiceStatuses == {"ACTIVE", "DRAINING", "INACTIVE"}

DashService == <<"-", "s", "e", "r", "v", "i", "c", "e">>

DashContainer == <<"-", "c", "o", "n", "t", "a", "i", "n", "e", "r">>

DashTg == <<"-", "t", "g">>

Projects ==
    { <<"a", "p", "p">>,
      <<"a", "p", "i">> \o DashService \o <<"s">>,
      <<"m", "y">> \o DashService \o <<"-", "v", "2">> }

SeqsUpTo(S, n) == UNION { [1..k -> S] : k \in 0..n }

----------------------------------------------------------------------------
(* Pure helpers *)

\* str.replace(old, new): leftmost, non-overlapping occurrences, all of them
RECURSIVE Replace(_, _, _)
Replace(s, old, new) ==
    IF Len(s) < Len(old) THEN s
    ELSE IF SubSeq(s, 1, Len(old)) = old
         THEN new \o Replace(SubSeq(s, Len(old) + 1, Len(s)), old, new)
         ELSE <<Head(s)>> \o Replace(Tail(s), old, new)

TgName(project_name) == project_name \o DashTg

ServiceName(project_name) == project_name \o DashService

TaskContainerName(project_name) == project_name \o DashContainer

BindingContainerName(service_name) ==
    Replace(service_name, DashService, <<>>) \o DashContainer

SsmParameterArn(reg, account_id, param_name) ==
    <<"arn:aws:ssm", reg, account_id, "parameter", param_name>>

ExecRoleArn(account_id) == <<"arn:aws:iam", account_id, "role/ecsTaskExecutionRole">>

Call(api, by, n, req, status, val) ==
    [api |-> api, by |-> by, n |-> n, req |-> req, status |-> status, val |-> val]

Issue(c) == calls' = Append(calls, c)

Exit(status, message) ==
    /\ pc' = "done"
    /\ exitStatus' = status
    /\ diag' = message

\* an exception no handler catches: traceback, exit status 1
Uncaught == Exit(1, "traceback")

Running(at) ==
    /\ pc' = at
    /\ UNCHANGED <<exitStatus, diag>>

----------------------------------------------------------------------------
(* Configuration file *)

ConfigKinds ==
    {"unreadable", "unparseable", "top_not_mapping", "no_variables_key",
     "variables_null", "variables_list", "variables_mapping"}

Configs ==
    { [kind |-> k, paths |-> <<>>] : k \in ConfigKinds \ {"variables_mapping"} }
    \cup { [kind |-> "variables_mapping", paths |-> m] : m \in SeqsUpTo(Paths, MaxVars) }

\* open(), yaml.safe_load() or the ['variables'] subscript raises
LoadRaises(c) ==
    c.kind \in {"unreadable", "unparseable", "top_not_mapping", "no_variables_key"}

\* the value of yaml.safe_load(f)['variables']
LoadedValue(c) ==
    [type |-> CASE c.kind = "variables_null" -> "null"
                [] c.kind = "variables_list" -> "list"
                [] OTHER -> "mapping",
     items |-> c.paths]

HasItems(v) == v.type = "mapping"

LoadConfig ==
    /\ pc = "load_config"
    /\ IF LoadRaises(cfg)
       THEN /\ Exit(1, "config_error")
            /\ UNCHANGED env_map
       ELSE /\ env_map' = LoadedValue(cfg)
            /\ Running("tg_describe")
    /\ UNCHANGED <<inputs, targetGroups, tg_arn, results, secrets_config, idx,
                   td_arn, service_exists, calls>>

----------------------------------------------------------------------------
(* get_or_create_target_group *)

PreexistingId == "tg/0z"

\* variant: the lookup is made under the project name, not the group name
FoundGroups_ByProjectName(name) == { g \in targetGroups : g[1] = project }

\* the groups describe_target_groups(Names=[name]) answers with
FoundGroups(name) == { g \in targetGroups : g[1] = name }

\* which of the successive resolver calls is running
TgInvocation == Len(results) + 1

\* the resolver returns arn to its caller
ReturnTargetGroup(arn) ==
    /\ tg_arn' = arn
    /\ results' = Append(results, arn)
    /\ IF mode = "main"
       THEN Running("main_account")
       ELSE Running(IF Len(results) + 1 < ResolverCalls THEN "tg_describe" ELSE "returned")

DescribeTargetGroups ==
    /\ pc = "tg_describe"
    /\ LET name == TgName(project)
           req == [Names |-> <<name>>]
           by == "get_or_create_target_group"
       IN \/ \E g \in FoundGroups(name) :
                /\ Issue(Call("elbv2.describe_target_groups", by, TgInvocation, req, "ok", <<g>>))
                /\ ReturnTargetGroup(g)
          \/ /\ FoundGroups(name) = {}
             /\ Issue(Call("elbv2.describe_target_groups", by, TgInvocation, req,
                           "TargetGroupNotFound", <<>>))
             /\ Running("tg_create")
             /\ UNCHANGED <<tg_arn, results>>
          \/ /\ Issue(Call("elbv2.describe_target_groups", by, TgInvocation, req,
                           "ClientError", <<>>))
             /\ Uncaught
             /\ UNCHANGED <<tg_arn, results>>
    /\ UNCHANGED <<inputs, targetGroups, env_map, secrets_config, idx, td_arn,
                   service_exists>>

CreateTargetGroup ==
    /\ pc = "tg_create"
    /\ LET name == TgName(project)
           req == [Name |-> name, Protocol |-> "HTTP", Port |-> ContainerPort,
                   TargetType |-> "ip", HealthCheckPath |-> "/"]
           by == "get_or_create_target_group"
       IN \/ \E id \in TgIds :
                /\ Issue(Call("elbv2.create_target_group", by, TgInvocation, req,
                              "ok", <<(<<name, id>>)>>))
                /\ targetGroups' = targetGroups \cup {<<name, id>>}
                /\ ReturnTargetGroup(<<name, id>>)
          \/ /\ Issue(Call("elbv2.create_target_group", by, TgInvocation, req,
                           "ClientError", <<>>))
             /\ Uncaught
             /\ UNCHANGED <<targetGroups, tg_arn, results>>
    /\ UNCHANGED <<inputs, env_map, secrets_config, idx, td_arn, service_exists>>

----------------------------------------------------------------------------
(* __main__, step 3: get_account_id for the execution role *)

MainAccountId ==
    /\ pc = "main_account"
    /\ \/ /\ Issue(Call("sts.get_caller_identity", "main", 1, <<>>, "ok", <<Account>>))
          /\ Running("register_begin")
       \/ /\ Issue(Call("sts.get_caller_identity", "main", 1, <<>>, "ClientError", <<>>))
          /\ Uncaught
    /\ UNCHANGED <<inputs, targetGroups, env_map, tg_arn, results, secrets_config,
                   idx, td_arn, service_exists>>

----------------------------------------------------------------------------
(* register_task_definition and get_ssm_parameter_arn *)

\* the keys of a mapping are distinct: the i-th variable is named by i
VarName(i) == i

\* where the loop over env_vars_map.items() goes after i - 1 entries
AfterEntry(i) == IF i > Len(env_map.items) THEN "register" ELSE "ssm_get"

BeginRegisterTaskDefinition ==
    /\ pc = "register_begin"
    /\ secrets_config' = <<>>
    /\ IF HasItems(env_map)
       THEN /\ idx' = 1
            /\ Running(AfterEntry(1))
       ELSE /\ Uncaught        \* AttributeError: no .items()
            /\ UNCHANGED idx
    /\ UNCHANGED <<inputs, targetGroups, env_map, tg_arn, results, td_arn,
                   service_exists, calls>>

\* variant: a missing parameter is reported but the loop goes on
SsmGetParameter_WarnOnly ==
    /\ pc = "ssm_get"
    /\ LET path == env_map.items[idx]
           req == [Name |-> path]
           by == "get_ssm_parameter_arn"
       IN \/ /\ path \in store
             /\ Issue(Call("ssm.get_parameter", by, idx, req, "ok", <<path>>))
             /\ Running("ssm_account")
          \/ /\ path \notin store
             /\ Issue(Call("ssm.get_parameter", by, idx, req, "ParameterNotFound", <<>>))
             /\ Running("ssm_account")
          \/ /\ Issue(Call("ssm.get_parameter", by, idx, req, "ClientError", <<>>))
             /\ Uncaught
    /\ UNCHANGED <<inputs, targetGroups, env_map, tg_arn, results, secrets_config,
                   idx, td_arn, service_exists>>

SsmGetParameter ==
    /\ pc = "ssm_get"
    /\ LET path == env_map.items[idx]
           req == [Name |-> path]
           by == "get_ssm_parameter_arn"
       IN \/ /\ path \in store
             /\ Issue(Call("ssm.get_parameter", by, idx, req, "ok", <<path>>))
             /\ Running("ssm_account")
          \/ /\ path \notin store
             /\ Issue(Call("ssm.get_parameter", by, idx, req, "ParameterNotFound", <<>>))
             /\ Exit(1, "parameter_missing")
          \/ /\ Issue(Call("ssm.get_parameter", by, idx, req, "ClientError", <<>>))
             /\ Uncaught
    /\ UNCHANGED <<inputs, targetGroups, env_map, tg_arn, results, secrets_config,
                   idx, td_arn, service_exists>>

SsmAccountId ==
    /\ pc = "ssm_account"
    /\ LET path == env_map.items[idx]
           by == "get_ssm_parameter_arn"
       IN \/ /\ Issue(Call("sts.get_caller_identity", by, idx, <<>>, "ok", <<Account>>))
             /\ secrets_config' =
                    Append(secrets_config,
                           [name |-> VarName(idx),
                            valueFrom |-> SsmParameterArn(region, Account, path)])
             /\ idx' = idx + 1
             /\ Running(AfterEntry(idx + 1))
          \/ /\ Issue(Call("sts.get_caller_identity", by, idx, <<>>, "ClientError", <<>>))
             /\ Uncaught
             /\ UNCHANGED <<secrets_config, idx>>
    /\ UNCHANGED <<inputs, targetGroups, env_map, tg_arn, results, td_arn,
                   service_exists>>

\* variant: a failed registration is swallowed and the run goes on
RegisterTaskDefinition_SwallowError ==
    /\ pc = "register"
    /\ LET req == [family |-> project,
                   executionRoleArn |-> ExecRoleArn(Account),
                   containerName |-> TaskContainerName(project),
                   containerPort |-> ContainerPort,
                   secrets |-> secrets_config]
           by == "register_task_definition"
       IN \/ \E rev \in Revisions :
                /\ Issue(Call("ecs.register_task_definition", by, 1, req, "ok",
                              <<(<<"task-definition", project, rev>>)>>))
                /\ td_arn' = <<"task-definition", project, rev>>
                /\ Running("describe1")
          \/ /\ Issue(Call("ecs.register_task_definition", by, 1, req, "ClientError", <<>>))
             /\ Running("describe1")
             /\ UNCHANGED td_arn
    /\ UNCHANGED <<inputs, targetGroups, env_map, tg_arn, results, secrets_config,
                   idx, service_exists>>

RegisterTaskDefinition ==
    /\ pc = "register"
    /\ LET req == [family |-> project,
                   executionRoleArn |-> ExecRoleArn(Account),
                   containerName |-> TaskContainerName(project),
                   containerPort |-> ContainerPort,
                   secrets |-> secrets_config]
           by == "register_task_definition"
       IN \/ \E rev \in Revisions :
                /\ Issue(Call("ecs.register_task_definition", by, 1, req, "ok",
                              <<(<<"task-definition", project, rev>>)>>))
                /\ td_arn' = <<"task-definition", project, rev>>
                /\ Running("describe1")
          \/ /\ Issue(Call("ecs.register_task_definition", by, 1, req, "ClientError", <<>>))
             /\ Uncaught
             /\ UNCHANGED td_arn
    /\ UNCHANGED <<inputs, targetGroups, env_map, tg_arn, results, secrets_config,
                   idx, service_exists>>

----------------------------------------------------------------------------
(* deploy_service *)

\* the 'services' list of a describe_services response
ServiceResponses == {<<>>} \cup { <<[status |-> s]>> : s \in ServiceStatuses }

\* lines 113-117: ['services'][0]['serviceArn'] raises IndexError on an empty list
ExistsAfterFirstQuery(services) == services # <<>>

\* variant: the `not` of the emptiness test is lost
ExistsAfterSecondQuery_LostNot(exists, services) ==
    IF services # <<>> THEN FALSE ELSE exists

\* lines 122-124
ExistsAfterSecondQuery(exists, services) ==
    IF services = <<>> \/ services[1].status = "INACTIVE" THEN FALSE ELSE exists

DescribeServices1 ==
    /\ pc = "describe1"
    /\ LET req == [services |-> <<ServiceName(project)>>]
       IN \/ \E services \in ServiceResponses :
                /\ Issue(Call("ecs.describe_services", "deploy_service", 1, req, "ok", services))
                /\ service_exists' = ExistsAfterFirstQuery(services)
                /\ Running("describe2")
          \/ /\ Issue(Call("ecs.describe_services", "deploy_service", 1, req, "ClientError", <<>>))
             /\ Uncaught
             /\ UNCHANGED service_exists
    /\ UNCHANGED <<inputs, targetGroups, env_map, tg_arn, results, secrets_config,
                   idx, td_arn>>

DescribeServices2 ==
    /\ pc = "describe2"
    /\ LET req == [services |-> <<ServiceName(project)>>]
       IN \/ \E services \in ServiceResponses :
                /\ Issue(Call("ecs.describe_services", "deploy_service", 2, req, "ok", services))
                /\ service_exists' = ExistsAfterSecondQuery(service_exists, services)
                /\ Running("submit")
          \/ /\ Issue(Call("ecs.describe_services", "deploy_service", 2, req, "ClientError", <<>>))
             /\ Uncaught
             /\ UNCHANGED service_exists
    /\ UNCHANGED <<inputs, targetGroups, env_map, tg_arn, results, secrets_config,
                   idx, td_arn>>

\* variant: the service is pointed at the family, not at the revision just registered
UpdateService_FamilyOnly ==
    /\ pc = "submit"
    /\ service_exists
    /\ LET req == [service |-> ServiceName(project),
                   taskDefinition |-> <<"task-definition", project>>,
                   forceNewDeployment |-> TRUE]
       IN \/ /\ Issue(Call("ecs.update_service", "deploy_service", 1, req, "ok", <<>>))
             /\ Exit(0, "submitted")
          \/ /\ Issue(Call("ecs.update_service", "deploy_service", 1, req, "ClientError", <<>>))
             /\ Uncaught
    /\ UNCHANGED <<inputs, targetGroups, env_map, tg_arn, results, secrets_config,
                   idx, td_arn, service_exists>>

UpdateService ==
    /\ pc = "submit"
    /\ service_exists
    /\ LET req == [service |-> ServiceName(project),
                   taskDefinition |-> td_arn,
                   forceNewDeployment |-> TRUE]
       IN \/ /\ Issue(Call("ecs.update_service", "deploy_service", 1, req, "ok", <<>>))
             /\ Exit(0, "submitted")
          \/ /\ Issue(Call("ecs.update_service", "deploy_service", 1, req, "ClientError", <<>>))
             /\ Uncaught
    /\ UNCHANGED <<inputs, targetGroups, env_map, tg_arn, results, secrets_config,
                   idx, td_arn, service_exists>>

\* variant: `if` instead of `else`: after creating, the update branch runs too
CreateService_FallThrough ==
    /\ pc = "submit"
    /\ ~service_exists
    /\ LET req == [serviceName |-> ServiceName(project),
                   taskDefinition |-> td_arn,
                   desiredCount |-> 1,
                   targetGroupArn |-> tg_arn,
                   containerName |-> BindingContainerName(ServiceName(project)),
                   containerPort |-> ContainerPort]
       IN \/ /\ Issue(Call("ecs.create_service", "deploy_service", 1, req, "ok", <<>>))
             /\ service_exists' = TRUE
             /\ Running("submit")
          \/ /\ Issue(Call("ecs.create_service", "deploy_service", 1, req, "ClientError", <<>>))
             /\ Uncaught
             /\ UNCHANGED service_exists
    /\ UNCHANGED <<inputs, targetGroups, env_map, tg_arn, results, secrets_config,
                   idx, td_arn>>

CreateService ==
    /\ pc = "submit"
    /\ ~service_exists
    /\ LET req == [serviceName |-> ServiceName(project),
                   taskDefinition |-> td_arn,
                   desiredCount |-> 1,
                   targetGroupArn |-> tg_arn,
                   containerName |-> BindingContainerName(ServiceName(project)),
                   containerPort |-> ContainerPort]
       IN \/ /\ Issue(Call("ecs.create_service", "deploy_service", 1, req, "ok", <<>>))
             /\ Exit(0, "submitted")
          \/ /\ Issue(Call("ecs.create_service", "deploy_service", 1, req, "ClientError", <<>>))
             /\ Uncaught
    /\ UNCHANGED <<inputs, targetGroups, env_map, tg_arn, results, secrets_config,
                   idx, td_arn, service_exists>>

----------------------------------------------------------------------------
(* Specification *)

InitLocals ==
    /\ env_map = [type |-> "null", items |-> <<>>]
    /\ tg_arn = <<>>
    /\ results = <<>>
    /\ secrets_config = <<>>
    /\ idx = 0
    /\ td_arn = <<>>
    /\ service_exists = TRUE
    /\ calls = <<>>
    /\ exitStatus = -1
    /\ diag = ""

InitRemote ==
    targetGroups \in SUBSET { <<TgName(p), PreexistingId>> : p \in Projects }

\* one run of the script
InitMain ==
    /\ mode = "main"
    /\ project \in Projects
    /\ region \in Regions
    /\ cfg \in Configs
    /\ store \in SUBSET Paths
    /\ pc = "load_config"

\* get_or_create_target_group called ResolverCalls times in a row with the same project name
InitResolverTwice ==
    /\ mode = "resolver_twice"
    /\ project \in Projects
    /\ region \in Regions
    /\ cfg = [kind |-> "variables_mapping", paths |-> <<>>]
    /\ store = {}
    /\ pc = "tg_describe"

Init ==
    /\ InitMain \/ InitResolverTwice
    /\ InitRemote
    /\ InitLocals

Next ==
    \/ LoadConfig
    \/ DescribeTargetGroups
    \/ CreateTargetGroup
    \/ MainAccountId
    \/ BeginRegisterTaskDefinition
    \/ SsmGetParameter
    \/ SsmAccountId
    \/ RegisterTaskDefinition
    \/ DescribeServices1
    \/ DescribeServices2
    \/ UpdateService
    \/ CreateService

Spec == Init /\ [][Next]_vars

----------------------------------------------------------------------------
(* Reading the log *)

CallsOf(api) == { i \in 1..Len(calls) : calls[i].api = api }

Count(api) == Cardinality(CallsOf(api))

Mutations == CallsOf("ecs.create_service") \cup CallsOf("ecs.update_service")

Exited == pc = "done"

\* describe_services has answered both queries of deploy_service
BothQueriesAnswered ==
    /\ Count("ecs.describe_services") = 2
    /\ \A i \in CallsOf("ecs.describe_services") : calls[i].status = "ok"

Answers == { calls[i].val : i \in CallsOf("ecs.describe_services") }

\* some mapped path is absent from the parameter store
MissingMapped ==
    /\ mode = "main"
    /\ cfg.kind = "variables_mapping"
    /\ \E k \in 1..Len(cfg.paths) : cfg.paths[k] \notin store

----------------------------------------------------------------------------
(* C1: a run whose mapping names a path that the parameter store does not  *)
(* hold never issues register_task_definition, create_service or           *)
(* update_service, cannot stop before it exits, and exits with status 1,   *)
(* wherever the missing path stands in the mapping.                        *)
C1_MissingPathExitsBeforeRegister ==
    MissingMapped =>
        /\ Count("ecs.register_task_definition") = 0
        /\ Mutations = {}
        /\ Exited => exitStatus = 1
        /\ ~Exited => ENABLED Next

\* the missing path is the second entry; the first one passed its check
C1_Witness ==
    /\ MissingMapped
    /\ Exited
    /\ diag = "parameter_missing"
    /\ Len(cfg.paths) = 2
    /\ cfg.paths[1] \in store
    /\ Len(secrets_config) = 1

(* C2: a run issues at most one register_task_definition and at most one   *)
(* of create_service / update_service; a run that reaches its end (exit    *)
(* status 0) issued exactly one of each.                                   *)
C2_AtMostOneRevisionAndOneServiceCall ==
    /\ Count("ecs.register_task_definition") <= 1
    /\ Cardinality(Mutations) <= 1
    /\ (Exited /\ exitStatus = 0) =>
           /\ Count("ecs.register_task_definition") = 1
           /\ Cardinality(Mutations) = 1

C2_Witness ==
    /\ Exited
    /\ exitStatus = 0
    /\ Count("ecs.register_task_definition") = 1
    /\ Count("ecs.update_service") = 1
    /\ Count("ecs.create_service") = 0

(* C3: once describe_services has answered both queries of deploy_service  *)
(* with no service, the call issued is one create_service and no           *)
(* update_service; once it has answered both with an ACTIVE service, the   *)
(* call issued is one update_service, carrying the registered task         *)
(* definition ARN and forceNewDeployment = TRUE, and no create_service.    *)
C3_CallFollowsQueriedState ==
    /\ (BothQueriesAnswered /\ Answers = {<<>>}) =>
           /\ pc \in {"submit", "done"}
           /\ pc = "submit" => ~service_exists
           /\ pc = "done" =>
                  /\ Count("ecs.create_service") = 1
                  /\ Count("ecs.update_service") = 0
    /\ (BothQueriesAnswered /\ Answers = {<<[status |-> "ACTIVE"]>>}) =>
           /\ pc \in {"submit", "done"}
           /\ pc = "submit" => service_exists
           /\ pc = "done" =>
                  /\ Count("ecs.update_service") = 1
                  /\ Count("ecs.create_service") = 0
                  /\ \A i \in CallsOf("ecs.update_service") :
                         /\ calls[i].req.forceNewDeployment = TRUE
                         /\ calls[i].req.taskDefinition = td_arn
                         /\ \E r \in CallsOf("ecs.register_task_definition") :
                                calls[r].val = <<td_arn>>

C3_Witness ==
    /\ BothQueriesAnswered
    /\ Answers = {<<[status |-> "ACTIVE"]>>}
    /\ Exited
    /\ exitStatus = 0
    /\ Count("ecs.update_service") = 1

(* C4: once describe_services has answered both queries with a service    *)
(* whose status is not ACTIVE, the call issued is create_service and not   *)
(* update_service.                                                         *)
C4_NonActiveTreatedAsAbsent ==
    (/\ BothQueriesAnswered
     /\ \A a \in Answers : a # <<>> /\ a[1].status # "ACTIVE"
     /\ Exited) =>
        /\ Count("ecs.create_service") = 1
        /\ Count("ecs.update_service") = 0

(* C5: with no group named <project>-tg at the start, successive calls of  *)
(* the resolver (two or more) issue at most one create_target_group and    *)
(* return the same identifier; a call whose lookup finds the group returns *)
(* the found identifier and issues no create_target_group.                 *)
C5_ResolverTwiceCreatesOnce ==
    /\ (/\ mode = "resolver_twice"
        /\ calls # <<>>
        /\ calls[1].status = "TargetGroupNotFound") =>
           /\ Count("elbv2.create_target_group") <= 1
           /\ \A a, b \in 1..Len(results) : results[a] = results[b]
    /\ \A i \in CallsOf("elbv2.describe_target_groups") :
           calls[i].status = "ok" =>
               /\ Len(results) >= calls[i].n
               /\ results[calls[i].n] = calls[i].val[1]
               /\ \A j \in CallsOf("elbv2.create_target_group") :
                      calls[j].n # calls[i].n

C5_Witness ==
    /\ mode = "resolver_twice"
    /\ calls # <<>>
    /\ calls[1].status = "TargetGroupNotFound"
    /\ pc = "returned"
    /\ Len(results) = ResolverCalls
    /\ Len(results) >= 2
    /\ Count("elbv2.create_target_group") = 1
    /\ Count("elbv2.describe_target_groups") = ResolverCalls

(* C6: every finished resolution of a secret path issued exactly one       *)
(* remote call, ssm.get_parameter, and two resolutions of the same path    *)
(* (same region, same account) gave the same identifier.                   *)
C6_OneRemoteCallPerResolution ==
    /\ \A k \in 1..Len(secrets_config) :
           LET mine == { i \in 1..Len(calls) :
                           calls[i].by = "get_ssm_parameter_arn" /\ calls[i].n = k }
           IN /\ Cardinality(mine) = 1
              /\ \A i \in mine : calls[i].api = "ssm.get_parameter"
    /\ \A j, k \in 1..Len(secrets_config) :
           env_map.items[j] = env_map.items[k] =>
               secrets_config[j].valueFrom = secrets_config[k].valueFrom

(* C7: a run whose configuration file cannot be opened or parsed, lacks    *)
(* the 'variables' key, or holds a 'variables' value that is no mapping,   *)
(* ends (when no remote call failed) with the configuration diagnostic     *)
(* and exit status 1.                                                      *)
C7_MalformedConfigDiagnosed ==
    (/\ mode = "main"
     /\ cfg.kind # "variables_mapping"
     /\ Exited
     /\ \A i \in 1..Len(calls) : calls[i].status # "ClientError") =>
        /\ exitStatus = 1
        /\ diag = "config_error"

(* C8, as stated: every failed remote call is the last call of the run,    *)
(* and the run has ended with a non-zero exit status.                      *)
C8_AnyFailureAborts ==
    mode = "main" =>
        \A i \in 1..Len(calls) :
            calls[i].status # "ok" =>
                /\ i = Len(calls)
                /\ Exited
                /\ exitStatus # 0

\* describe_target_groups answering "not found": the handled case
HandledNotFound(c) ==
    c.api = "elbv2.describe_target_groups" /\ c.status = "TargetGroupNotFound"

(* C8, amended: every failed remote call other than describe_target_groups *)
(* answering TargetGroupNotFound is the last call of the run, and the run  *)
(* has ended with a non-zero exit status; after TargetGroupNotFound the    *)
(* only call that follows directly is create_target_group.                 *)
C8_UnhandledFailureAborts ==
    mode = "main" =>
        \A i \in 1..Len(calls) :
            /\ (calls[i].status # "ok" /\ ~HandledNotFound(calls[i])) =>
                   /\ i = Len(calls)
                   /\ Exited
                   /\ exitStatus # 0
            /\ (HandledNotFound(calls[i]) /\ i < Len(calls)) =>
                   calls[i + 1].api = "elbv2.create_target_group"

\* register_task_definition fails after the secrets were resolved
C8_Witness ==
    /\ mode = "main"
    /\ Exited
    /\ exitStatus = 1
    /\ diag = "traceback"
    /\ Len(calls) > 3
    /\ calls[Len(calls)].api = "ecs.register_task_definition"
    /\ calls[Len(calls)].status = "ClientError"

(* C9: a run that ends with exit status 0 ends right after a create_service *)
(* or update_service call that succeeded; that call carries the ARN        *)
(* returned by the run's register_task_definition call, and before that    *)
(* call every mapped path passed its ssm.get_parameter check.              *)
C9_ExitZeroMeansSubmitted ==
    (Exited /\ exitStatus = 0) =>
        LET last == Len(calls)
        IN /\ last > 0
           /\ last \in Mutations
           /\ calls[last].status = "ok"
           /\ \E r \in CallsOf("ecs.register_task_definition") :
                  /\ r < last
                  /\ calls[r].status = "ok"
                  /\ calls[last].req.taskDefinition = calls[r].val[1]
                  /\ cfg.kind = "variables_mapping"
                  /\ \A k \in 1..Len(cfg.paths) :
                         \E g \in CallsOf("ssm.get_parameter") :
                             /\ g < r
                             /\ calls[g].n = k
                             /\ calls[g].req.Name = cfg.paths[k]
                             /\ calls[g].status = "ok"

C9_Witness ==
    /\ Exited
    /\ exitStatus = 0
    /\ Len(cfg.paths) = 2
    /\ calls[Len(calls)].api = "ecs.update_service"
    /\ calls[Len(calls)].req.taskDefinition = td_arn
    /\ td_arn # <<>>

(* C10: the containerName of a create_service call equals the container    *)
(* name of the task definition registered in the same run.                 *)
C10_ContainerNamesMatch ==
    \A i \in CallsOf("ecs.create_service") :
        \A r \in CallsOf("ecs.register_task_definition") :
            calls[i].req.containerName = calls[r].req.containerName
====
